---- MODULE Spec2Model ----
(***************************************************************************)
(* REMS repair-report intake: the submit handlers of the two variants of   *)
(* the backend, src/App.py (POST /submit) and src/app.py (POST             *)
(* /api/submit), with the database session, the upload directory and the   *)
(* mail transport they act on.                                             *)
(*                                                                         *)
(* One deployment runs one of the two files; `variant` says which          *)
(* ("App" for src/App.py, "api" for src/app.py).  Definitions prefixed     *)
(* App_ model src/App.py, definitions prefixed api_ model src/app.py.      *)
(*                                                                         *)
(* Strings are tuples of one-character strings, so that len(), slicing,    *)
(* strip(), isalpha(), isdigit(), int(), float() and strptime() are        *)
(* computed the way Python computes them.  A missing field is None.        *)
(* The float measurement fields of a report (setpoint, temperatures) are   *)
(* taken as absent, where both handlers default them to 0.                 *)
(***************************************************************************)
EXTENDS Integers, Sequences, FiniteSets, TLC

\* ------------------------------------------------------------------ bounds

\* job_count ranges over 0..MaxJobs.
MaxJobs == 2
\* Number of alarm[] entries of a submission.
MaxAlarms == 2
\* Wall-clock seconds that pass during a run (datetime.now() in 0..MaxTime).
MaxTime == 1

\* The handler threads of the web server.  Each handles one request of a
\* run; the two requests overlap in every possible way, one after the other
\* included.
Procs == {1, 2}

\* ----------------------------------------------------------- Python values

\* form_data.get(key) of a key that is not in the body.
None == <<"None">>

AsciiLetters == {"A", "B", "C", "D", "E"}
\* Letters outside A-Za-z for which str.isalpha() is true (U+00C9).
UnicodeLetters == {"U+00C9"}
AsciiDigits == {"0", "1", "2", "3", "4", "5", "6", "7", "8", "9"}
Whitespace == {" "}

DigitVal(c) ==
    CASE c = "0" -> 0 [] c = "1" -> 1 [] c = "2" -> 2 [] c = "3" -> 3
      [] c = "4" -> 4 [] c = "5" -> 5 [] c = "6" -> 6 [] c = "7" -> 7
      [] c = "8" -> 8 [] c = "9" -> 9

\* s[a:b] with 0-based Python indices, clipped to the string.
Slice(s, a, b) ==
    LET hi == IF b > Len(s) THEN Len(s) ELSE b
    IN  IF a >= hi THEN <<>> ELSE SubSeq(s, a + 1, hi)

\* str.isalpha(): non-empty and every character alphabetic.
isalpha(s) ==
    /\ Len(s) > 0
    /\ \A i \in 1..Len(s) : s[i] \in AsciiLetters \cup UnicodeLetters

\* str.isdigit(): non-empty and every character a digit.
isdigit(s) ==
    /\ Len(s) > 0
    /\ \A i \in 1..Len(s) : s[i] \in AsciiDigits

RECURSIVE lstrip(_)
lstrip(s) ==
    IF Len(s) > 0 /\ Head(s) \in Whitespace THEN lstrip(Tail(s)) ELSE s

RECURSIVE rstrip(_)
rstrip(s) ==
    IF Len(s) > 0 /\ s[Len(s)] \in Whitespace
    THEN rstrip(SubSeq(s, 1, Len(s) - 1))
    ELSE s

\* str.strip()
strip(s) == rstrip(lstrip(s))

RECURSIVE DigitsValue(_)
DigitsValue(s) ==
    IF Len(s) = 0 THEN 0
    ELSE 10 * DigitsValue(SubSeq(s, 1, Len(s) - 1)) + DigitVal(s[Len(s)])

\* Result of a Python expression: a value, or the exception it raises.
Ok(v) == [exc |-> "none", val |-> v]
Raise(e) == [exc |-> e, val |-> 0]

\* int(x) for x a str: surrounding whitespace is ignored, the rest must be
\* decimal digits; anything else raises ValueError.
int(x) ==
    LET t == strip(x)
    IN  IF isdigit(t) THEN Ok(DigitsValue(t)) ELSE Raise("ValueError")

\* Index of the first "." of s, 0 if there is none.
RECURSIVE FindDot(_, _)
FindDot(s, i) ==
    IF i > Len(s) THEN 0 ELSE IF s[i] = "." THEN i ELSE FindDot(s, i + 1)

\* float(x) for x a str, as a number of tenths: digits, optionally followed
\* by "." and one digit; anything else raises ValueError.
float(x) ==
    LET t == strip(x)
        d == FindDot(t, 1)
    IN  IF d = 0
        THEN IF isdigit(t) THEN Ok(10 * DigitsValue(t)) ELSE Raise("ValueError")
        ELSE LET whole == SubSeq(t, 1, d - 1)
                 frac  == SubSeq(t, d + 1, Len(t))
             IN  IF isdigit(whole) /\ isdigit(frac) /\ Len(frac) = 1
                 THEN Ok(10 * DigitsValue(whole) + DigitsValue(frac))
                 ELSE Raise("ValueError")

IsLeap(y) == (y % 4 = 0 /\ y % 100 # 0) \/ y % 400 = 0

DaysInMonth(y, m) ==
    IF m = 2 THEN (IF IsLeap(y) THEN 29 ELSE 28)
    ELSE IF m \in {4, 6, 9, 11} THEN 30 ELSE 31

\* Index of the first "-" of s at or after i, 0 if there is none.
RECURSIVE FindDash(_, _)
FindDash(s, i) ==
    IF i > Len(s) THEN 0 ELSE IF s[i] = "-" THEN i ELSE FindDash(s, i + 1)

\* datetime.strptime(x, '%Y-%m-%d').date(): TypeError when x is not a str;
\* ValueError unless x is a 4-digit year, a 1-2 digit month in 1..12 and a
\* 1-2 digit day of that month, separated by "-".
strptime(x) ==
    IF x = None THEN Raise("TypeError")
    ELSE
    LET d1 == FindDash(x, 1)
        d2 == IF d1 = 0 THEN 0 ELSE FindDash(x, d1 + 1)
        ys == SubSeq(x, 1, d1 - 1)
        ms == SubSeq(x, d1 + 1, d2 - 1)
        ds == SubSeq(x, d2 + 1, Len(x))
    IN  IF d1 = 0 \/ d2 = 0 THEN Raise("ValueError")
        ELSE IF ~(isdigit(ys) /\ Len(ys) = 4 /\ isdigit(ms) /\ Len(ms) \in 1..2
                  /\ isdigit(ds) /\ Len(ds) \in 1..2)
        THEN Raise("ValueError")
        ELSE LET y == DigitsValue(ys)
                 m == DigitsValue(ms)
                 d == DigitsValue(ds)
             IN  IF y >= 1 /\ m \in 1..12 /\ d >= 1 /\ d <= DaysInMonth(y, m)
                 THEN Ok([year |-> y, month |-> m, day |-> d])
                 ELSE Raise("ValueError")

\* ------------------------------------------------------------ the requests

C_OK    == <<"A", "B", "C", "D", "1", "2", "3", "4", "5", "6", "7">>
C_SHORT == <<"A", "B", "C">>
C_UNI   == <<"U+00C9", "B", "C", "D", "1", "2", "3", "4", "5", "6", "7">>
C_LONG  == <<"A", "B", "C", "D", "1", "2", "3", "4", "5", "6", "7", "8">>
ContainerInputs == {None, C_OK, C_SHORT, C_UNI, C_LONG}

D_OK  == <<"2", "0", "2", "4", "-", "0", "2", "-", "2", "9">>
D_BAD == <<"2", "0", "2", "3", "-", "0", "2", "-", "2", "9">>
D_FMT == <<"2", "9", "/", "0", "2", "/", "2", "0", "2", "4">>
DatumInputs == {None, D_OK, D_BAD, D_FMT}

N_OK == <<"E", "D">>

\* The fields job[i][quantity] and job[i][labor_hours] of one index.
NoJob == [quantity |-> None, labor_hours |-> None]
JobInputs ==
    { NoJob,
      [quantity |-> <<"3">>, labor_hours |-> <<"1", ".", "5">>],
      [quantity |-> <<>>, labor_hours |-> <<>>],
      [quantity |-> <<"x">>, labor_hours |-> None] }

NumeralOf(n) == <<CHOOSE c \in AsciiDigits : DigitVal(c) = n>>
JobCountInputs == {None, <<"x">>} \cup {NumeralOf(n) : n \in 0..MaxJobs}

AlarmInputs == {<<>>, <<" ">>, <<" ", "E", "5">>}
AlarmLists == UNION {[1..n -> AlarmInputs] : n \in 0..MaxAlarms}

\* An uploaded file's name: directories, stem and extension ("" when the
\* name has no dot).
NoFile == [dirs |-> <<>>, stem |-> "", ext |-> ""]
F_JPG  == [dirs |-> <<>>, stem |-> "a", ext |-> "jpg"]
F_UP   == [dirs |-> <<"..">>, stem |-> "a", ext |-> "jpg"]
F_TXT  == [dirs |-> <<>>, stem |-> "notes", ext |-> "txt"]
FileInputs == {F_JPG, F_UP, F_TXT}
\* The keys of request.files, in the order files.items() yields them.
FileKeyOrder == <<"fotos_voor", "fotos_na">>
FileKeys == {FileKeyOrder[i] : i \in 1..Len(FileKeyOrder)}
NoFiles == [k \in FileKeys |-> NoFile]

JobIdx == 0..(MaxJobs - 1)
NoJobs == [i \in JobIdx |-> NoJob]

\* A body that carries nothing the handlers read.
Blank(body) ==
    [sub |-> 0, body |-> body, containernr |-> None, datum |-> None,
     naam |-> None, job_count |-> None, job |-> NoJobs, alarm |-> <<>>,
     files |-> NoFiles]

\* A well-formed submission without jobs, alarms or files.
Base(body) ==
    [Blank(body) EXCEPT !.containernr = C_OK, !.datum = D_OK, !.naam = N_OK]

ScalarCases ==
    { [Base(b) EXCEPT !.containernr = c, !.datum = d] :
        b \in {"form", "json"}, c \in ContainerInputs, d \in DatumInputs }
    \cup { [Base("form") EXCEPT !.naam = None] }

\* The job fields a client sends along with job_count jc.
JobFieldsFor(jc) ==
    { f \in [JobIdx -> JobInputs] :
        \A i \in JobIdx :
            (jc \in {None, <<"x">>} \/ i >= DigitsValue(jc)) => f[i] = NoJob }

JobCases ==
    UNION { { [Base(b) EXCEPT !.job_count = jc, !.job = j] :
                b \in {"form", "json"}, j \in JobFieldsFor(jc) } :
            jc \in JobCountInputs }

AlarmCases ==
    { [Base(b) EXCEPT !.alarm = a] : b \in {"form", "json"}, a \in AlarmLists }

FileCases ==
    { [Base("form") EXCEPT !.files = f] : f \in [FileKeys -> FileInputs \cup {NoFile}] }
    \cup { [Blank("files") EXCEPT !.files = f] :
             f \in [FileKeys -> {F_JPG, NoFile}] \ {NoFiles} }

\* The submissions a client sends: a well-formed one varied along one of its
\* parts, and a body that is neither form data nor JSON.
Submissions ==
    ScalarCases \cup JobCases \cup AlarmCases \cup FileCases \cup {Blank("other")}

\* A well-formed submission with one job and one alarm.
WithChildren ==
    [Base("form") EXCEPT !.job_count = NumeralOf(1),
                         !.job[0] = [quantity |-> <<"3">>,
                                     labor_hours |-> <<"1", ".", "5">>],
                         !.alarm = << <<" ", "E", "5">> >>]

\* A well-formed submission: with or without a photo, or with a job and an
\* alarm.
PlainSubmissions ==
    { Base("form"), [Base("form") EXCEPT !.files["fotos_voor"] = F_JPG],
      WithChildren }

\* The request of thread 1 ranges over all the submissions; the request of
\* thread 2, which overlaps it, over the plain ones.
SubmissionsOf(p) == IF p = 1 THEN Submissions ELSE PlainSubmissions

\* request.form.get(key): the field of a form body, None otherwise.
form_get(r, key) == IF r.body = "form" THEN r[key] ELSE None
\* request.form.getlist('alarm[]')
form_getlist_alarm(r) == IF r.body = "form" THEN r.alarm ELSE <<>>
\* request.form.get(f'job[{i}][{field}]')
form_get_job(r, i, field) ==
    IF r.body = "form" /\ i \in JobIdx THEN r.job[i][field] ELSE None
\* request.get_json().get(key): the field of a JSON body.
json_get(r, key) == r[key]
json_get_job(r, i, field) == IF i \in JobIdx THEN r.job[i][field] ELSE None
\* request.is_json
is_json(r) == r.body = "json"
\* bool(request.form): the form holds at least one field.
form_truthy(r) ==
    /\ r.body = "form"
    /\ \/ \E k \in {"containernr", "datum", "naam", "job_count"} : r[k] # None
       \/ r.alarm # <<>>
       \/ \E i \in JobIdx : r.job[i] # NoJob

\* --------------------------------------------------------------- the state

VARIABLES
    variant,      \* the file the deployment runs: "App" (src/App.py) or "api" (src/app.py)
    pc,           \* pc[p]: where handler thread p is in submit_report
    req,          \* req[p]: the request thread p handles (req[p].sub = p names it)
    session,      \* session[p]: the rows pending in p's db.session
    report,       \* report[p]: the handler's `report` object, <<>> before it is built
    written,      \* written[p]: the paths p's handler has saved a file to
    mail,         \* mail[p]: how p's call of send_email ended ("none" before it)
    saved_files,  \* saved_files[p]: the saved_files list of p's handler
    resp,         \* resp[p]: the response of p's handler
    db,           \* the committed rows of the three tables
    disk,         \* the files of UPLOAD_FOLDER
    outbox,       \* the emails the transport has accepted
    next_id,      \* the next value of the repair_reports id sequence
    now           \* the wall clock, in seconds

vars == <<variant, pc, req, session, report, written, mail, saved_files, resp,
          db, disk, outbox, next_id, now>>

EmptySession == [report |-> <<>>, jobs |-> <<>>, alarms |-> <<>>]
EmptyDb == [repair_reports |-> {}, repair_jobs |-> {}, alarms |-> {}]
NoResp == [code |-> 0, status |-> "none", report_id |-> 0]
\* An except clause that re-raises: the handler returns no response of its
\* own.
ErrorResp_reraised(code) == NoResp

\* jsonify({"status": "error", ...}), code
ErrorResp(code) == [code |-> code, status |-> "error", report_id |-> 0]
\* jsonify({"status": "success", ..., "report_id": id}) with the default 200
SuccessResp(id) == [code |-> 200, status |-> "success", report_id |-> id]

\* The primary key of a row that has not been flushed.
Unflushed == 0

\* RepairReport(...) of a submission
RepairReport(r, container, date, naam) ==
    [id |-> Unflushed, sub |-> r.sub, container_number |-> container,
     report_date |-> date, technician_name |-> naam]

\* RepairJob(...) of index i of a submission
RepairJob(r, report_id, i, quantity, labor_hours) ==
    [report_id |-> report_id, sub |-> r.sub, idx |-> i,
     quantity |-> quantity, labor_hours |-> labor_hours]

\* Alarm(...) of the entry at position k of alarm[]
Alarm(r, report_id, k, code) ==
    [report_id |-> report_id, sub |-> r.sub, pos |-> k, alarm_code |-> code]

\* range(1, job_count): the loop misses index 0.
job_range_from_one(job_count) == [n \in 1..(job_count - 1) |-> n]

\* range(job_count): the indices 0, 1, ..., job_count - 1 in order.
job_range(job_count) == [n \in 1..job_count |-> n - 1]

\* An id sequence that hands out the same id again.
next_report_id_stuck(id) == id

\* The repair_reports id sequence after it has handed out id.
next_report_id(id) == id + 1

\* `if alarm.strip():` of the alarm loops
alarm_kept(alarm) == strip(alarm) # <<>>

\* The alarm loop: one Alarm per entry that is non-empty after strip().
alarm_rows(r, report_id, entries) ==
    LET kept == { k \in 1..Len(entries) : alarm_kept(entries[k]) }
        nth[n \in 1..Cardinality(kept)] ==
            CHOOSE k \in kept : Cardinality({j \in kept : j < k}) = n - 1
    IN  [n \in 1..Cardinality(kept) |->
            Alarm(r, report_id, nth[n], strip(entries[nth[n]]))]

\* db.session.rollback(): the pending rows are discarded.
rollback(sess) == EmptySession

\* The rows a successful db.session.commit() adds to the tables.
tables_after_commit(tables, sess) ==
    [repair_reports |-> tables.repair_reports \cup {sess.report[i] : i \in 1..Len(sess.report)},
     repair_jobs    |-> tables.repair_jobs \cup {sess.jobs[i] : i \in 1..Len(sess.jobs)},
     alarms         |-> tables.alarms \cup {sess.alarms[i] : i \in 1..Len(sess.alarms)}]

\* An exception handler that leaves the session to flush what is pending:
\* the rows added before the exception reach the tables.
tables_after_rollback_missing(tables, sess) == tables_after_commit(tables, sess)

\* The tables after a transaction that ended in an exception handler: the
\* rollback leaves the committed rows as they were.
tables_after_rollback(tables, sess) == tables

\* The NOT NULL and String(11) constraints of repair_reports that the INSERT
\* of a report checks.
report_insert_ok(row) ==
    /\ row.container_number # None
    /\ Len(row.container_number) <= 11
    /\ row.technician_name # None

Init ==
    /\ variant \in {"App", "api"}
    /\ pc = [p \in Procs |-> "idle"]
    /\ req = [p \in Procs |-> Blank("other")]
    /\ session = [p \in Procs |-> EmptySession]
    /\ report = [p \in Procs |-> <<>>]
    /\ written = [p \in Procs |-> {}]
    /\ mail = [p \in Procs |-> "none"]
    /\ saved_files = [p \in Procs |-> <<>>]
    /\ resp = [p \in Procs |-> NoResp]
    /\ db = EmptyDb
    /\ disk = {}
    /\ outbox = {}
    /\ next_id = 1
    /\ now = 0

\* A client posts a submission and the server hands it to thread p.
Receive(p) ==
    /\ pc[p] = "idle"
    /\ \E s \in SubmissionsOf(p) :
        req' = [req EXCEPT ![p] = [s EXCEPT !.sub = p]]
    /\ pc' = [pc EXCEPT ![p] = "build"]
    /\ UNCHANGED <<variant, session, report, written, mail, saved_files, resp,
                   db, disk, outbox, next_id, now>>

\* ------------------------------------------------- files and the transport

ALLOWED_EXTENSIONS == {"png", "jpg", "jpeg", "gif"}

\* str.lower() of an extension
lower(e) == IF e = "JPG" THEN "jpg" ELSE e

\* allowed_file(filename)
allowed_file(f) == f.ext # "" /\ lower(f.ext) \in ALLOWED_EXTENSIONS

\* werkzeug's secure_filename(filename): path separators become "_" and
\* leading dots and underscores are stripped, which drops leading ".."
\* directories; the name is the remaining parts.
RECURSIVE drop_dots(_)
drop_dots(dirs) ==
    IF Len(dirs) > 0 /\ Head(dirs) \in {".", ".."} THEN drop_dots(Tail(dirs))
    ELSE dirs
secure_filename(f) == drop_dots(f.dirs) \o <<f.stem, f.ext>>

\* The stamp of a path that carries no timestamp.
NoStamp == -1

\* The upload directory after file.save(path) of the given bytes.
file_save(dsk, path, content) ==
    {e \in dsk : e.path # path} \cup {[path |-> path, content |-> content]}

\* os.path.exists(path)
exists(dsk, path) == \E e \in dsk : e.path = path

\* open(path, 'rb').read()
file_read(dsk, path) == (CHOOSE e \in dsk : e.path = path).content

\* os.remove(path)
os_remove(dsk, path) == {e \in dsk : e.path # path}

\* The bytes a submission uploads under a key of request.files.
upload(r, key) == [sub |-> r.sub, key |-> key]

\* ------------------------------------------- src/app.py: POST /api/submit

\* form_data = request.form if request.form else request.get_json()
api_form_data_get(r, key) ==
    IF form_truthy(r) THEN form_get(r, key) ELSE json_get(r, key)
api_form_data_get_job(r, i, field) ==
    IF form_truthy(r) THEN form_get_job(r, i, field) ELSE json_get_job(r, i, field)

\* The container number check of the handler.
api_container_ok(container_nr) ==
    /\ Len(container_nr) = 11
    /\ isalpha(Slice(container_nr, 0, 4))
    /\ isdigit(Slice(container_nr, 4, Len(container_nr)))

\* The except clauses of the handler: ValueError is answered 400, any other
\* exception 500.
api_error_code(exc) == IF exc = "ValueError" THEN 400 ELSE 500

\* int(job_data['quantity'] or 1)
api_quantity(q) == IF q = None \/ q = <<>> THEN Ok(1) ELSE int(q)
\* float(job_data['labor_hours'] or 0), in tenths
api_labor_hours(h) == IF h = None \/ h = <<>> THEN Ok(0) ELSE float(h)
\* int(form_data.get('job_count', 0))
api_job_count(r) ==
    LET jc == api_form_data_get(r, "job_count")
    IN  IF jc = None THEN Ok(0) ELSE int(jc)

\* The job loop: the rows it adds, and the exception of the first index
\* whose fields do not convert ("none" when all convert).
api_jobs(r, report_id, job_count) ==
    LET idx == job_range(job_count)
        q(i) == api_quantity(api_form_data_get_job(r, i, "quantity"))
        h(i) == api_labor_hours(api_form_data_get_job(r, i, "labor_hours"))
        bad == { n \in 1..Len(idx) :
                   q(idx[n]).exc # "none" \/ h(idx[n]).exc # "none" }
        first == CHOOSE n \in bad : \A k \in bad : n <= k
        done == IF bad = {} THEN Len(idx) ELSE first - 1
    IN  [exc |-> IF bad = {} THEN "none"
                 ELSE IF q(idx[first]).exc # "none" THEN q(idx[first]).exc
                 ELSE h(idx[first]).exc,
         val |-> [n \in 1..done |->
                    RepairJob(r, report_id, idx[n], q(idx[n]).val, h(idx[n]).val)]]

\* The handler from its first line to the end of the alarm loop, for a
\* request r when the id sequence stands at id: the response code it returns
\* early (0 when it goes on), whether the flush drew an id, and the rows
\* pending in the session at that point.
api_build(r, id) ==
    LET stop(code, flushed, pending) ==
            [code |-> code, flushed |-> flushed, session |-> pending]
        got == api_form_data_get(r, "containernr")
        container_nr == IF got = None THEN <<>> ELSE got
        date == strptime(api_form_data_get(r, "datum"))
        row == [RepairReport(r, container_nr, date.val,
                                api_form_data_get(r, "naam")) EXCEPT !.id = id]
        job_count == api_job_count(r)
        jobs == api_jobs(r, id, job_count.val)
        alarms == alarm_rows(r, id, form_getlist_alarm(r))
        inserted == [EmptySession EXCEPT !.report = <<row>>]
    IN  IF ~is_json(r) /\ ~form_truthy(r) THEN stop(415, FALSE, EmptySession)
        ELSE IF ~api_container_ok(container_nr) THEN stop(400, FALSE, EmptySession)
        ELSE IF date.exc # "none"
            THEN stop(api_error_code(date.exc), FALSE, EmptySession)
        ELSE IF ~report_insert_ok(row)
            THEN stop(api_error_code("IntegrityError"), TRUE, EmptySession)
        ELSE IF job_count.exc # "none"
            THEN stop(api_error_code(job_count.exc), TRUE, inserted)
        ELSE IF jobs.exc # "none"
            THEN stop(api_error_code(jobs.exc), TRUE,
                      [inserted EXCEPT !.jobs = jobs.val])
        ELSE [code |-> 0, flushed |-> TRUE,
              session |-> [report |-> <<row>>, jobs |-> jobs.val,
                           alarms |-> alarms]]

\* submit_report up to the file loop: content type, validation, the report
\* with its flush, the jobs and the alarms.
api_submit_report_build(p) ==
    /\ variant = "api"
    /\ pc[p] = "build"
    /\ LET b == api_build(req[p], next_id)
       IN  /\ next_id' = IF b.flushed THEN next_report_id(next_id) ELSE next_id
           /\ IF b.code = 0
              THEN /\ session' = [session EXCEPT ![p] = b.session]
                   /\ report' = [report EXCEPT ![p] = b.session.report]
                   /\ pc' = [pc EXCEPT ![p] = "files"]
                   /\ UNCHANGED <<resp, db>>
              ELSE /\ session' = [session EXCEPT ![p] = rollback(b.session)]
                   /\ report' = [report EXCEPT ![p] = b.session.report]
                   /\ db' = tables_after_rollback(db, b.session)
                   /\ resp' = [resp EXCEPT ![p] = ErrorResp(b.code)]
                   /\ pc' = [pc EXCEPT ![p] = "responded"]
    /\ UNCHANGED <<variant, req, written, mail, saved_files, disk, outbox, now>>

\* The file loop from key number i on, when the fail-th file.save raises
\* (none when fail = 0): the paths saved, the directory, and the exception.
RECURSIVE api_save_files(_, _, _, _, _, _)
api_save_files(r, i, fail, tried, saved, dsk) ==
    IF i > Len(FileKeyOrder) THEN [exc |-> "none", saved |-> saved, disk |-> dsk]
    ELSE
    LET key  == FileKeyOrder[i]
        file == r.files[key]
    IN  IF file # NoFile /\ allowed_file(file)
        THEN LET filepath == [stamp |-> NoStamp, name |-> secure_filename(file)]
             IN  IF tried + 1 = fail
                 THEN [exc |-> "OSError", saved |-> saved, disk |-> dsk]
                 ELSE api_save_files(r, i + 1, fail, tried + 1,
                                     Append(saved, filepath),
                                     file_save(dsk, filepath, upload(r, key)))
        ELSE api_save_files(r, i + 1, fail, tried, saved, dsk)

\* The number of files of a request that pass the extension check.
n_allowed(r) == Cardinality({k \in FileKeys : r.files[k] # NoFile /\ allowed_file(r.files[k])})

\* submit_report: the file loop.
api_submit_report_files(p) ==
    /\ variant = "api"
    /\ pc[p] = "files"
    /\ \E fail \in 0..n_allowed(req[p]) :
        LET out == api_save_files(req[p], 1, fail, 0, <<>>, disk)
        IN  /\ disk' = out.disk
            /\ saved_files' = [saved_files EXCEPT ![p] = out.saved]
            /\ written' = [written EXCEPT ![p] =
                              {out.saved[n] : n \in 1..Len(out.saved)}]
            /\ IF out.exc = "none"
               THEN /\ pc' = [pc EXCEPT ![p] = "email"]
                    /\ UNCHANGED <<session, db, resp>>
               ELSE /\ session' = [session EXCEPT ![p] = rollback(session[p])]
                    /\ db' = tables_after_rollback(db, session[p])
                    /\ resp' = [resp EXCEPT ![p] = ErrorResp(api_error_code(out.exc))]
                    /\ pc' = [pc EXCEPT ![p] = "responded"]
    /\ UNCHANGED <<variant, req, report, mail, outbox, next_id, now>>

\* send_email of src/app.py: an attachment that cannot be opened is logged
\* and left out; the message holds the bytes read from the others.
api_send_email(r, subject, attachments, dsk) ==
    LET readable == SelectSeq(attachments, LAMBDA path : exists(dsk, path))
    IN  [sub |-> r.sub, subject |-> subject,
         attachments |-> [n \in 1..Len(readable) |-> file_read(dsk, readable[n])]]

\* submit_report: the try block around send_email.  The transport accepts
\* the message or raises; the handler logs the exception and goes on.
api_submit_report_email(p) ==
    /\ variant = "api"
    /\ pc[p] = "email"
    /\ \E sent \in BOOLEAN :
        /\ outbox' = IF sent
                     THEN outbox \cup {api_send_email(req[p],
                               api_form_data_get(req[p], "containernr"),
                               saved_files[p], disk)}
                     ELSE outbox
        /\ mail' = [mail EXCEPT ![p] = IF sent THEN "sent" ELSE "raised"]
    /\ pc' = [pc EXCEPT ![p] = "commit"]
    /\ UNCHANGED <<variant, req, session, report, written, saved_files, resp,
                   db, disk, next_id, now>>

\* The response after the commit: report.id of the handler's report.
api_success_response(rep) == SuccessResp(rep[1].id)

\* submit_report: db.session.commit() and the response.  The commit succeeds
\* or raises; when it raises the handler rolls back and answers 500.
api_submit_report_commit(p) ==
    /\ variant = "api"
    /\ pc[p] = "commit"
    /\ \E ok \in BOOLEAN :
        IF ok
        THEN /\ db' = tables_after_commit(db, session[p])
             /\ resp' = [resp EXCEPT ![p] = api_success_response(report[p])]
        ELSE /\ db' = tables_after_rollback(db, session[p])
             /\ resp' = [resp EXCEPT ![p] = ErrorResp(api_error_code("OperationalError"))]
    /\ session' = [session EXCEPT ![p] = rollback(session[p])]
    /\ pc' = [pc EXCEPT ![p] = "responded"]
    /\ UNCHANGED <<variant, req, report, written, mail, saved_files, disk,
                   outbox, next_id, now>>

api_Next ==
    \E p \in Procs :
        \/ api_submit_report_build(p)
        \/ api_submit_report_files(p)
        \/ api_submit_report_email(p)
        \/ api_submit_report_commit(p)

\* ----------------------------------------------- src/App.py: POST /submit

\* The except clause of the handler: every exception is answered 500.
App_error_code(exc) == 500

\* int(form_data.get(f'{prefix}[quantity]', 1))
App_quantity(q) == IF q = None THEN Ok(1) ELSE int(q)
\* float(form_data.get(f'{prefix}[labor_hours]', 0)), in tenths
App_labor_hours(h) == IF h = None THEN Ok(0) ELSE float(h)
\* int(form_data.get('job_count', 0))
App_job_count(r) ==
    LET jc == form_get(r, "job_count")
    IN  IF jc = None THEN Ok(0) ELSE int(jc)

\* The job loop: the rows it adds, and the exception of the first index
\* whose fields do not convert ("none" when all convert).
App_jobs(r, job_count) ==
    LET idx == job_range(job_count)
        q(i) == App_quantity(form_get_job(r, i, "quantity"))
        h(i) == App_labor_hours(form_get_job(r, i, "labor_hours"))
        bad == { n \in 1..Len(idx) :
                   q(idx[n]).exc # "none" \/ h(idx[n]).exc # "none" }
        first == CHOOSE n \in bad : \A k \in bad : n <= k
        done == IF bad = {} THEN Len(idx) ELSE first - 1
    IN  [exc |-> IF bad = {} THEN "none"
                 ELSE IF q(idx[first]).exc # "none" THEN q(idx[first]).exc
                 ELSE h(idx[first]).exc,
         val |-> [n \in 1..done |->
                    RepairJob(r, Unflushed, idx[n], q(idx[n]).val, h(idx[n]).val)]]

\* The handler from its first line to the end of the alarm loop: the
\* response code it ends with (0 when it goes on to the commit) and the rows
\* pending in the session at that point.
App_build(r) ==
    LET stop(code, pending) == [code |-> code, session |-> pending]
        date == strptime(form_get(r, "datum"))
        row == RepairReport(r, form_get(r, "containernr"), date.val,
                            form_get(r, "naam"))
        added == [EmptySession EXCEPT !.report = <<row>>]
        job_count == App_job_count(r)
        jobs == App_jobs(r, job_count.val)
        alarms == alarm_rows(r, Unflushed, form_getlist_alarm(r))
    IN  IF date.exc # "none" THEN stop(App_error_code(date.exc), EmptySession)
        ELSE IF job_count.exc # "none"
            THEN stop(App_error_code(job_count.exc), added)
        ELSE IF jobs.exc # "none"
            THEN stop(App_error_code(jobs.exc), [added EXCEPT !.jobs = jobs.val])
        ELSE [code |-> 0,
              session |-> [report |-> <<row>>, jobs |-> jobs.val,
                           alarms |-> alarms]]

\* submit_report up to the commit: the report, the jobs and the alarms.
App_submit_report_build(p) ==
    /\ variant = "App"
    /\ pc[p] = "build"
    /\ LET b == App_build(req[p])
       IN  /\ report' = [report EXCEPT ![p] = b.session.report]
           /\ IF b.code = 0
              THEN /\ session' = [session EXCEPT ![p] = b.session]
                   /\ pc' = [pc EXCEPT ![p] = "commit"]
                   /\ UNCHANGED <<resp, db>>
              ELSE /\ session' = [session EXCEPT ![p] = rollback(b.session)]
                   /\ db' = tables_after_rollback(db, b.session)
                   /\ resp' = [resp EXCEPT ![p] = ErrorResp(b.code)]
                   /\ pc' = [pc EXCEPT ![p] = "responded"]
    /\ UNCHANGED <<variant, req, written, mail, saved_files, disk, outbox, next_id, now>>

\* A flush that gives the report its id and leaves the related rows without
\* one.
App_flush_report_only(sess, id) ==
    [sess EXCEPT !.report = [n \in 1..Len(sess.report) |->
                                [sess.report[n] EXCEPT !.id = id]]]

\* The flush of the commit: the report takes the next id of the sequence and
\* the rows related to it through report=report take it as report_id.
App_flush(sess, id) ==
    [report |-> [n \in 1..Len(sess.report) |-> [sess.report[n] EXCEPT !.id = id]],
     jobs   |-> [n \in 1..Len(sess.jobs) |-> [sess.jobs[n] EXCEPT !.report_id = id]],
     alarms |-> [n \in 1..Len(sess.alarms) |-> [sess.alarms[n] EXCEPT !.report_id = id]]]

\* submit_report: db.session.commit().  The INSERT of the report draws an id
\* and checks the constraints; the commit succeeds or raises; when it raises
\* the handler rolls back and answers 500.
App_submit_report_commit(p) ==
    /\ variant = "App"
    /\ pc[p] = "commit"
    /\ next_id' = next_report_id(next_id)
    /\ LET flushed == App_flush(session[p], next_id)
       IN  \E ok \in BOOLEAN :
            IF ok /\ report_insert_ok(flushed.report[1])
            THEN /\ db' = tables_after_commit(db, flushed)
                 /\ report' = [report EXCEPT ![p] = flushed.report]
                 /\ pc' = [pc EXCEPT ![p] = "files"]
                 /\ UNCHANGED resp
            ELSE /\ db' = tables_after_rollback(db, flushed)
                 /\ resp' = [resp EXCEPT ![p] =
                        ErrorResp(App_error_code("IntegrityError"))]
                 /\ pc' = [pc EXCEPT ![p] = "responded"]
                 /\ UNCHANGED report
    /\ session' = [session EXCEPT ![p] = rollback(session[p])]
    /\ UNCHANGED <<variant, req, written, mail, saved_files, disk, outbox, now>>

\* process_uploaded_files from key number i on, when datetime.now() reads
\* stamps[i] at key i and the fail-th file.save raises (none when fail = 0):
\* the file_info records saved, the directory, the last stamp read and the
\* exception.
RECURSIVE App_process_uploaded_files(_, _, _, _, _, _, _, _)
App_process_uploaded_files(r, i, fail, tried, stamps, clock, saved, dsk) ==
    IF i > Len(FileKeyOrder)
    THEN [exc |-> "none", saved |-> saved, disk |-> dsk, clock |-> clock]
    ELSE
    LET key  == FileKeyOrder[i]
        file == r.files[key]
    IN  IF file = NoFile \/ ~allowed_file(file)
        THEN App_process_uploaded_files(r, i + 1, fail, tried, stamps, clock,
                                        saved, dsk)
        ELSE LET original_name == secure_filename(file)
                 file_path == [stamp |-> stamps[i], name |-> original_name]
                 file_info == [path |-> file_path,
                               original_name |-> original_name, key |-> key]
             IN  IF tried + 1 = fail
                 THEN [exc |-> "OSError", saved |-> saved, disk |-> dsk,
                       clock |-> stamps[i]]
                 ELSE App_process_uploaded_files(r, i + 1, fail, tried + 1,
                          stamps, stamps[i], Append(saved, file_info),
                          file_save(dsk, file_path, upload(r, key)))

\* The readings of a clock that stands at t and never runs backwards, one per
\* key of request.files.
Readings(t) ==
    { st \in [1..Len(FileKeyOrder) -> t..MaxTime] :
        \A i, j \in 1..Len(FileKeyOrder) : i <= j => st[i] <= st[j] }

\* submit_report: saved_files = process_uploaded_files(files).  When a
\* file.save raises, the handler rolls back (the rows are committed by then)
\* and answers 500.
App_submit_report_files(p) ==
    /\ variant = "App"
    /\ pc[p] = "files"
    /\ \E fail \in 0..n_allowed(req[p]), stamps \in Readings(now) :
        LET out == App_process_uploaded_files(req[p], 1, fail, 0, stamps, now,
                                              <<>>, disk)
        IN  /\ disk' = out.disk
            /\ now' = out.clock
            /\ written' = [written EXCEPT ![p] =
                              {out.saved[n].path : n \in 1..Len(out.saved)}]
            /\ IF out.exc = "none"
               THEN /\ saved_files' = [saved_files EXCEPT ![p] = out.saved]
                    /\ pc' = [pc EXCEPT ![p] = "email"]
                    /\ UNCHANGED <<session, db, resp>>
               ELSE /\ session' = [session EXCEPT ![p] = rollback(session[p])]
                    /\ db' = tables_after_rollback(db, session[p])
                    /\ resp' = [resp EXCEPT ![p] = ErrorResp(App_error_code(out.exc))]
                    /\ pc' = [pc EXCEPT ![p] = "responded"]
                    /\ UNCHANGED saved_files
    /\ UNCHANGED <<variant, req, report, mail, outbox, next_id>>

\* send_email of src/App.py up to the transport: open() of an attachment
\* that is not there raises; otherwise the message holds the bytes read.
App_send_email(r, subject, attachments, dsk) ==
    IF \E n \in 1..Len(attachments) : ~exists(dsk, attachments[n].path)
    THEN Raise("FileNotFoundError")
    ELSE Ok([sub |-> r.sub, subject |-> subject,
             attachments |-> [n \in 1..Len(attachments) |->
                                 file_read(dsk, attachments[n].path)]])

\* submit_report: send_email(...).  The transport accepts the message or
\* raises; an exception of send_email ends the handler with a rollback and
\* a 500.
App_submit_report_email(p) ==
    /\ variant = "App"
    /\ pc[p] = "email"
    /\ LET msg == App_send_email(req[p], form_get(req[p], "containernr"),
                                 saved_files[p], disk)
       IN  \E sent \in BOOLEAN :
            IF sent /\ msg.exc = "none"
            THEN /\ outbox' = outbox \cup {msg.val}
                 /\ mail' = [mail EXCEPT ![p] = "sent"]
                 /\ pc' = [pc EXCEPT ![p] = "cleanup"]
                 /\ UNCHANGED <<session, db, resp>>
            ELSE /\ session' = [session EXCEPT ![p] = rollback(session[p])]
                 /\ db' = tables_after_rollback(db, session[p])
                 /\ resp' = [resp EXCEPT ![p] = ErrorResp(App_error_code("SMTPException"))]
                 /\ mail' = [mail EXCEPT ![p] = "raised"]
                 /\ pc' = [pc EXCEPT ![p] = "responded"]
                 /\ UNCHANGED outbox
    /\ UNCHANGED <<variant, req, report, written, saved_files, disk, next_id, now>>

\* cleanup_files(file_list): os.remove of every saved path; a path that is
\* gone is logged and skipped.
RECURSIVE cleanup_files(_, _)
cleanup_files(file_list, dsk) ==
    IF file_list = <<>> THEN dsk
    ELSE cleanup_files(Tail(file_list), os_remove(dsk, Head(file_list).path))

\* The response of the handler: report.id of the committed report.
App_success_response(rep) == SuccessResp(rep[1].id)

\* submit_report: cleanup_files(saved_files) and the response.
App_submit_report_cleanup(p) ==
    /\ variant = "App"
    /\ pc[p] = "cleanup"
    /\ disk' = cleanup_files(saved_files[p], disk)
    /\ resp' = [resp EXCEPT ![p] = App_success_response(report[p])]
    /\ pc' = [pc EXCEPT ![p] = "responded"]
    /\ UNCHANGED <<variant, req, session, report, written, mail, saved_files,
                   db, outbox, next_id, now>>

App_Next ==
    \E p \in Procs :
        \/ App_submit_report_build(p)
        \/ App_submit_report_commit(p)
        \/ App_submit_report_files(p)
        \/ App_submit_report_email(p)
        \/ App_submit_report_cleanup(p)

Next == (\E p \in Procs : Receive(p)) \/ api_Next \/ App_Next

Spec == Init /\ [][Next]_vars

\* The positions of submit_report between its first line and its return.
Running == {"build", "files", "email", "commit", "cleanup"}

\* Thread p goes on to the next position of its handler.  Every step of a
\* handler changes pc[p], and at every position in Running the handler has a
\* step to take.
Advance(p) ==
    /\ pc[p] \in Running
    /\ \E at \in (Running \cup {"responded"}) \ {pc[p]} :
        pc' = [pc EXCEPT ![p] = at]

\* The server keeps running a thread that handles a request: every call the
\* handler makes (the database, file.save, the mail transport, os.remove)
\* returns or raises.  Clients are free to send nothing.
LiveSpec == Spec /\ \A p \in Procs : WF_pc(Advance(p))

\* ------------------------------------------------------------- properties

\* The handler of thread p has returned its response.
Responded(p) == pc[p] = "responded"
Succeeded(p) == Responded(p) /\ resp[p].status = "success"

\* The committed rows of p's submission.
ReportsOf(p) == {x \in db.repair_reports : x.sub = p}
JobsOf(p) == {x \in db.repair_jobs : x.sub = p}
AlarmsOf(p) == {x \in db.alarms : x.sub = p}
NoRowsOf(p) == ReportsOf(p) = {} /\ JobsOf(p) = {} /\ AlarmsOf(p) = {}

\* The body is form data or JSON that carries the fields of a submission.
HasFields(p) == req[p].body \in {"form", "json"}

\* 4 letters followed by 7 digits.
MatchesContainerFormat(c) ==
    /\ c # None
    /\ Len(c) = 11
    /\ \A i \in 1..4 : c[i] \in AsciiLetters \cup UnicodeLetters
    /\ \A i \in 5..11 : c[i] \in AsciiDigits

\* The files p's submission wrote that are still in the upload directory.
FilesLeftOf(p) ==
    {e \in disk : e.path \in written[p] /\ e.content.sub = p}

\* C1: a submission whose containernr is not 4 letters followed by 7 digits
\* (a missing one included) is answered with an error and leaves no report,
\* job or alarm row in the database.
C1_MalformedContainerRejected ==
    \A p \in Procs :
        (Responded(p) /\ HasFields(p) /\ ~MatchesContainerFormat(req[p].containernr))
            => (resp[p].status = "error" /\ NoRowsOf(p))

\* The failure that ended p's handler with an error came before its commit
\* had succeeded.
FailedBeforeCommit(p) ==
    /\ Responded(p)
    /\ resp[p].status = "error"
    /\ variant = "App" => (report[p] = <<>> \/ report[p][1].id = Unflushed)

\* The rows the handler of p builds for its request when nothing fails, with
\* the report id it was given.
BuiltRows(p, id) ==
    IF variant = "api" THEN api_build(req[p], id)
    ELSE LET b == App_build(req[p])
         IN  [code |-> b.code, session |-> App_flush(b.session, id)]

\* The committed rows of p are the report with all its jobs and alarms.
AllRowsOf(p) ==
    \E x \in ReportsOf(p) :
        LET b == BuiltRows(p, x.id)
        IN  /\ b.code = 0
            /\ ReportsOf(p) = {x}
            /\ x = b.session.report[1]
            /\ JobsOf(p) = {b.session.jobs[n] : n \in 1..Len(b.session.jobs)}
            /\ AlarmsOf(p) = {b.session.alarms[n] : n \in 1..Len(b.session.alarms)}

\* C2: a submission that failed after its report was added and before its
\* commit succeeded has no row in the database once the handler has
\* returned, and at every moment the committed rows of a submission are
\* either none or the report with all its jobs and alarms.
C2_RollbackAtomicity ==
    \A p \in Procs :
        /\ FailedBeforeCommit(p) => NoRowsOf(p)
        /\ NoRowsOf(p) \/ AllRowsOf(p)

\* A handler that had added its report, with a job, failed before the commit
\* succeeded and returned, while the other submission was committed.
C2_Witness ==
    \E p, q \in Procs :
        /\ FailedBeforeCommit(p)
        /\ report[p] # <<>>
        /\ req[p].job_count \notin {None, <<"0">>}
        /\ NoRowsOf(p)
        /\ AllRowsOf(q)

\* C3: when send_email raises during a submission whose rows are committed,
\* the handler still answers 200 with status "success" and the id of the
\* committed report.
C3_MailFailureStillSuccess ==
    \A p \in Procs :
        (Responded(p) /\ mail[p] = "raised" /\ ReportsOf(p) # {})
            => \E x \in ReportsOf(p) : resp[p] = SuccessResp(x.id)

\* C4: the commit of a submission completes before its notification attempt
\* starts, so that no email is sent for a submission whose rows are not
\* committed or whose response is an error.
C4_CommitThenNotify ==
    \A p \in Procs :
        /\ mail[p] # "none" => ReportsOf(p) # {}
        /\ (Responded(p) /\ mail[p] = "sent") => resp[p].status = "success"

\* C5: once a handler has returned, no attachment file its submission wrote
\* is left in the upload directory.
C5_NoFilesLeft ==
    \A p \in Procs : Responded(p) => FilesLeftOf(p) = {}

\* The job_count a submission carries: the number its field spells, 0 when
\* the field is absent.
SubmittedJobCount(p) ==
    IF req[p].job_count = None THEN 0 ELSE DigitsValue(strip(req[p].job_count))

\* C6: a successful submission with job_count = N has exactly N committed job
\* rows, one for each index 0..N-1, each with the id of the submission's
\* report row as its report_id.
C6_JobRowsPerIndex ==
    \A p \in Procs :
        Succeeded(p) =>
            LET N == SubmittedJobCount(p)
            IN  /\ Cardinality(JobsOf(p)) = N
                /\ \A i \in 0..(N - 1) : \E j \in JobsOf(p) : j.idx = i
                /\ \A j \in JobsOf(p) :
                      /\ j.idx \in 0..(N - 1)
                      /\ j.report_id = resp[p].report_id
                      /\ \E x \in ReportsOf(p) : x.id = j.report_id

\* A submission with job_count = MaxJobs succeeded, one of its indices
\* carrying no field at all, next to another committed submission.
C6_Witness ==
    \E p, q \in Procs :
        /\ p # q
        /\ Succeeded(p)
        /\ SubmittedJobCount(p) = MaxJobs
        /\ Cardinality(JobsOf(p)) = MaxJobs
        /\ \E i \in JobIdx : req[p].job[i] = NoJob
        /\ ReportsOf(q) # {}

\* The alarm[] entries of a submission that are not blank, trimmed, in order.
SubmittedAlarms(p) ==
    LET kept == SelectSeq(req[p].alarm, LAMBDA a : strip(a) # <<>>)
    IN  [n \in 1..Len(kept) |-> strip(kept[n])]

\* The alarm codes of the committed alarm rows of p, in the order of their
\* entries.
RECURSIVE CodesInOrder(_)
CodesInOrder(rows) ==
    IF rows = {} THEN <<>>
    ELSE LET x == CHOOSE y \in rows : \A z \in rows : y.pos <= z.pos
         IN  <<x.alarm_code>> \o CodesInOrder(rows \ {x})

\* C7: the committed alarm rows of a successful submission are its alarm[]
\* entries that are non-empty after trimming, one row each, stored trimmed
\* and linked to the submission's report.
C7_AlarmRowsAreNonBlankEntries ==
    \A p \in Procs :
        Succeeded(p) =>
            /\ CodesInOrder(AlarmsOf(p)) = SubmittedAlarms(p)
            /\ \A a \in AlarmsOf(p) : a.report_id = resp[p].report_id

\* C8: a success response with report_id r means a committed report row with
\* primary key r that holds the fields of the submission, and two successful
\* submissions never get the same report_id.
C8_ReportIdRoundTrip ==
    \A p \in Procs :
        Succeeded(p) =>
            /\ \E x \in db.repair_reports :
                /\ x.id = resp[p].report_id
                /\ x.sub = p
                /\ x.container_number = req[p].containernr
                /\ x.report_date = strptime(req[p].datum).val
                /\ x.technician_name = req[p].naam
            /\ \A y \in db.repair_reports :
                  y.id = resp[p].report_id => y.sub = p
            /\ \A q \in Procs \ {p} :
                  Succeeded(q) => resp[q].report_id # resp[p].report_id

\* Both submissions succeeded.
C8_Witness ==
    \A p \in Procs : Succeeded(p) /\ resp[p].report_id > 0

\* The submission fails validation: its container code is malformed, or its
\* datum is missing or no YYYY-MM-DD date.
FailsValidation(p) ==
    \/ ~MatchesContainerFormat(req[p].containernr)
    \/ req[p].datum = None
    \/ strptime(req[p].datum).exc # "none"

\* C9: a submission that fails validation is answered 400 with status
\* "error" and nothing of it is persisted.
C9_ValidationFailureIs400 ==
    \A p \in Procs :
        (Responded(p) /\ HasFields(p) /\ FailsValidation(p))
            => (resp[p] = ErrorResp(400) /\ NoRowsOf(p))

\* C10: a request is answered 415 exactly when its body is neither form data
\* nor JSON, and then no row is persisted, no file written and no email
\* sent.
C10_UnsupportedMediaIs415 ==
    \A p \in Procs :
        Responded(p) =>
            /\ resp[p].code = 415 <=> req[p].body = "other"
            /\ resp[p].code = 415 =>
                  (NoRowsOf(p) /\ written[p] = {} /\ mail[p] = "none")

\* The response is one of the two JSON bodies of the handlers.
IsJsonResponse(r) ==
    \/ /\ r.status = "success" /\ r.code = 200 /\ r.report_id > 0
    \/ /\ r.status = "error" /\ r.code \in {400, 415, 500}

\* The handler of p failed at send_email or at a step after it.
FailedAtOrAfterNotification(p) ==
    Responded(p) /\ resp[p].status = "error" /\ mail[p] # "none"

\* C11: every submission a handler has started is eventually answered, with
\* one JSON response that is never replaced by another, whichever of its
\* steps fail; and no step, a failure at or after the notification included,
\* removes a committed row.
C11_AnsweredExactlyOnce ==
    /\ \A p \in Procs : (pc[p] = "build") ~> Responded(p)
    /\ [](\A p \in Procs :
            /\ Responded(p) <=> resp[p] # NoResp
            /\ Responded(p) => IsJsonResponse(resp[p]))
    /\ [][\A p \in Procs :
            /\ Responded(p) => (pc'[p] = pc[p] /\ resp'[p] = resp[p])
            /\ db.repair_reports \subseteq db'.repair_reports
            /\ db.repair_jobs \subseteq db'.repair_jobs
            /\ db.alarms \subseteq db'.alarms]_vars

\* A handler whose rows were committed failed at send_email and answered
\* with an error, the rows staying, while the other handler failed before
\* anything of it was committed.
C11_Witness ==
    \E p, q \in Procs :
        /\ p # q
        /\ FailedAtOrAfterNotification(p)
        /\ AllRowsOf(p)
        /\ Responded(q) /\ resp[q].status = "error" /\ NoRowsOf(q)

\* The committed rows that belong to a report: the jobs and the alarms.
ChildRows == db.repair_jobs \cup db.alarms

\* C12: in every reachable state every committed job row and every committed
\* alarm row carries as report_id the primary key of exactly one committed
\* report row, the report of its own submission.
C12_ReferentialIntegrity ==
    /\ \A c \in ChildRows :
        /\ c.report_id # Unflushed
        /\ \E x \in db.repair_reports : x.id = c.report_id /\ x.sub = c.sub
    /\ \A x, y \in db.repair_reports : x.id = y.id => x = y

\* A submission is committed with a job and an alarm, while the other one
\* failed after its report and a job had been added to the session, and left
\* no row.
C12_Witness ==
    \E p, q \in Procs :
        /\ p # q
        /\ JobsOf(p) # {} /\ AlarmsOf(p) # {}
        /\ FailedBeforeCommit(q)
        /\ report[q] # <<>>
        /\ req[q].job_count \notin {None, <<"0">>}
        /\ NoRowsOf(q)

\* The handler of p got through validation, the rows and (src/App.py) the
\* commit, and then failed in the file loop, before send_email was called.
FailedSavingFile(p) ==
    /\ Responded(p)
    /\ resp[p].status = "error"
    /\ mail[p] = "none"
    /\ IF variant = "api" THEN api_build(req[p], next_id).code = 0
       ELSE ReportsOf(p) # {}

\* C13: when saving an uploaded file of a submission fails after earlier
\* files of it were written, no file of that submission is in the upload
\* directory once the handler has returned.
C13_PartialSaveCleanedUp ==
    \A p \in Procs : FailedSavingFile(p) => FilesLeftOf(p) = {}

\* C14: two submissions never write to the same path of the upload
\* directory, two files of one submission are saved under two paths, and an
\* email holds no bytes that another submission uploaded.
C14_UploadPathsUnique ==
    /\ \A p, q \in Procs : p # q => written[p] \cap written[q] = {}
    /\ \A p \in Procs :
          saved_files[p] # <<>> => Cardinality(written[p]) = Len(saved_files[p])
    /\ \A m \in outbox :
          \A n \in 1..Len(m.attachments) : m.attachments[n].sub = m.sub

\* The submission of p is well-formed and its job_count spells a number, so
\* that only the job fields decide how the job loop ends.
WellFormedWithJobs(p) ==
    /\ HasFields(p)
    /\ req[p].containernr = C_OK /\ req[p].datum = D_OK /\ req[p].naam = N_OK
    /\ req[p].job_count # None
    /\ isdigit(req[p].job_count)

\* The quantity a job is to be stored with: 1 when the field is absent, empty
\* or no integer.
DefaultedQuantity(q) ==
    IF q = None \/ q = <<>> \/ int(q).exc # "none" THEN 1 ELSE int(q).val

\* The labor hours (in tenths) a job is to be stored with: 0 when the field
\* is absent or empty.
DefaultedLaborHours(h) ==
    IF h = None \/ h = <<>> THEN 0 ELSE float(h).val

\* C15: whatever the quantity and labor_hours fields of the indices below
\* job_count hold (absent, empty, a non-integer quantity), the job loop does
\* not fail the submission, and a successful submission has for every index
\* a job row with quantity defaulted to 1 and labor_hours defaulted to 0.
C15_JobDefaults ==
    \A p \in Procs :
        (pc[p] \notin {"idle", "build"} /\ WellFormedWithJobs(p)) =>
            /\ BuiltRows(p, next_id).code = 0
            /\ Succeeded(p) =>
                \A i \in 0..(SubmittedJobCount(p) - 1) :
                    \E j \in JobsOf(p) :
                        /\ j.idx = i
                        /\ j.quantity = DefaultedQuantity(req[p].job[i].quantity)
                        /\ j.labor_hours =
                              DefaultedLaborHours(req[p].job[i].labor_hours)

\* What src/app.py builds for the form submission that carries the fields of
\* p's request, given the report id.
FormTwinBuild(p, id) == api_build([req[p] EXCEPT !.body = "form"], id)

\* C16: in src/app.py a JSON submission is answered and persisted as the
\* form submission with the same fields is: the same 400 or 415 when
\* validation rejects it, and on success the same report, job and alarm
\* rows, its non-blank alarms included.
C16_BodyFormatEquivalence ==
    \A p \in Procs :
        (variant = "api" /\ Responded(p) /\ req[p].body = "json") =>
            LET f == FormTwinBuild(p, IF Succeeded(p) THEN resp[p].report_id
                                      ELSE next_id)
            IN  /\ (resp[p].code \in {400, 415} \/ f.code \in {400, 415})
                      => resp[p].code = f.code
                /\ Succeeded(p) =>
                      /\ f.code = 0
                      /\ ReportsOf(p) = {f.session.report[n] :
                                            n \in 1..Len(f.session.report)}
                      /\ JobsOf(p) = {f.session.jobs[n] :
                                         n \in 1..Len(f.session.jobs)}
                      /\ AlarmsOf(p) = {f.session.alarms[n] :
                                           n \in 1..Len(f.session.alarms)}

====
